---- MODULE Spec2Model ----
(***************************************************************************)
(* KeyEventManager (src/src/lib/KeyEventManager.js): the singleton that    *)
(* owns the focus-only and the global key event strategies, routes key     *)
(* events to them and answers queries on the focus-only strategy's         *)
(* current event.                                                          *)
(*                                                                         *)
(* JavaScript values are records: undefined, null, numbers, booleans and   *)
(* strings that may meet in one place are wrapped in records with          *)
(* different fields, so that any two of them can be compared.              *)
(***************************************************************************)
EXTENDS Naturals, Sequences, FiniteSets

VARIABLES
  instance,   \* the static slot KeyEventManager.instance (NoInstance: deleted or never set)
  heap,       \* the KeyEventManager objects constructed so far, by reference 1..Len(heap)
  last,       \* the last call made by the hosting layer: its arguments, result and engine calls
  returned,   \* what getInstance was given and returned, call by call, since the last clear()
  calls,      \* the number of calls made so far
  trace       \* while trace.on: the key event calls made on the managers, and the
              \* calls their strategies have received, both in order

vars == <<instance, heap, last, returned, calls, trace>>

----------------------------------------------------------------------------
(* Bounds *)

MaxInstances == 2
MaxCalls == 4

----------------------------------------------------------------------------
(* JavaScript values *)

Undefined == [undefined |-> TRUE]
Null == [null |-> TRUE]
Num(n) == [num |-> n]
Bool(b) == [bool |-> b]
Str(s) == [str |-> s]
EmptyObject == [object |-> "{}"]

NoInstance == 0
NoError == "none"

\* A default parameter value (x = d in a parameter list) replaces undefined only.
Default(x, d) == IF x = Undefined THEN d ELSE x

----------------------------------------------------------------------------
(* Inputs of the hosting layer *)

Keys == {"a", "b"}
Types == {"keydown", "keypress", "keyup"}
NativeEvents == {"n1", "n2"}

\* A synthetic key event, as far as the manager reads it.
Events == [key : Keys, type : Types, nativeEvent : NativeEvents]

\* The hosting layer calls handleKeydown for a keydown event, handleKeypress
\* for a keypress event and handleKeyup for a keyup event.
EventsOf(type) == {e \in Events : e.type = type}

CustomLogger == [level |-> "debug"]
Configurations == {Undefined, [logger |-> CustomLogger]}

FocusTreeIds == {Undefined, Num(0)}
ComponentIds == {Num(0), Num(1)}
\* The component a key event is handled for.
EventComponentIds == {Num(0)}
KeyMaps == {Undefined, [keyMap |-> "SAVE"]}
HandlersMaps == {Undefined, [handlers |-> "SAVE"]}
OptionsSet == {[options |-> "o"]}
EventOptionsSet == {[eventOptions |-> "e"]}

----------------------------------------------------------------------------
(* Collaborators whose code is outside the source files *)

\* new Logger(level)
Logger(level) == [level |-> level]

\* helpers/resolving-handlers/isFromFocusOnlyComponent: a pure function of
\* the focus tree id; an event that carries no focus tree id does not come
\* from a focus-only component.
isFromFocusOnlyComponent(focusTreeId) == focusTreeId # Undefined

\* new FocusOnlyKeyEventStrategy({configuration, logger}): no event
\* processed yet, so there is no current event.
FocusOnlyKeyEventStrategy(configuration, logger) ==
  [configuration |-> configuration, logger |-> logger, currentEvent |-> Undefined]

\* new GlobalKeyEventStrategy({configuration, logger}, keyEventManager)
GlobalKeyEventStrategy(configuration, logger, keyEventManager) ==
  [configuration |-> configuration, logger |-> logger,
   keyEventManager |-> keyEventManager]

----------------------------------------------------------------------------
(* KeyEventManager *)

\* configuration.logger || new Logger('warn')
LoggerOf(configuration) ==
  IF "logger" \in DOMAIN configuration /\ configuration.logger # Undefined
  THEN configuration.logger
  ELSE Logger("warn")

\* The constructor without its last assignment: lastEventSeen is left
\* undefined.
KeyEventManagerNoInit(ref, configuration) ==
  LET cfg == Default(configuration, EmptyObject)
      logger == LoggerOf(cfg)
  IN [logger |-> logger,
      focusOnlyEventStrategy |-> FocusOnlyKeyEventStrategy(cfg, logger),
      globalEventStrategy |-> GlobalKeyEventStrategy(cfg, logger, ref),
      lastEventSeen |-> Undefined]

\* constructor(configuration = {}); ref is the reference of the new object (this)
KeyEventManager(ref, configuration) ==
  LET cfg == Default(configuration, EmptyObject)
      logger == LoggerOf(cfg)
  IN [logger |-> logger,
      focusOnlyEventStrategy |-> FocusOnlyKeyEventStrategy(cfg, logger),
      globalEventStrategy |-> GlobalKeyEventStrategy(cfg, logger, ref),
      lastEventSeen |-> Null]

\* getInstance without the test of the slot: every call constructs.
getInstanceAlwaysNew(slot, objs, configuration) ==
  LET cfg == Default(configuration, EmptyObject)
      ref == Len(objs) + 1
  IN [instance |-> ref, heap |-> Append(objs, KeyEventManager(ref, cfg)), ret |-> ref]

\* getInstance that, finding the slot empty, takes up the object made last
\* instead of constructing one.
getInstanceReuse(slot, objs, configuration) ==
  LET cfg == Default(configuration, EmptyObject)
      ref == Len(objs) + 1
  IN IF slot = NoInstance
     THEN IF objs = << >>
          THEN [instance |-> ref, heap |-> Append(objs, KeyEventManager(ref, cfg)),
                ret |-> ref]
          ELSE [instance |-> Len(objs), heap |-> objs, ret |-> Len(objs)]
     ELSE [instance |-> slot, heap |-> objs, ret |-> slot]

\* getInstance that applies the configuration it is given to the instance
\* that exists.
getInstanceReconfigure(slot, objs, configuration) ==
  LET cfg == Default(configuration, EmptyObject)
      ref == Len(objs) + 1
  IN IF slot = NoInstance
     THEN [instance |-> ref, heap |-> Append(objs, KeyEventManager(ref, cfg)), ret |-> ref]
     ELSE [instance |-> slot,
           heap |-> [objs EXCEPT ![slot].logger = LoggerOf(cfg),
                                 ![slot].focusOnlyEventStrategy.logger = LoggerOf(cfg),
                                 ![slot].focusOnlyEventStrategy.configuration = cfg,
                                 ![slot].globalEventStrategy.logger = LoggerOf(cfg),
                                 ![slot].globalEventStrategy.configuration = cfg],
           ret |-> slot]

\* getInstance that constructs and returns an object without storing it in
\* the slot.
getInstanceNoStore(slot, objs, configuration) ==
  LET cfg == Default(configuration, EmptyObject)
      ref == Len(objs) + 1
  IN IF slot = NoInstance
     THEN [instance |-> slot, heap |-> Append(objs, KeyEventManager(ref, cfg)), ret |-> ref]
     ELSE [instance |-> slot, heap |-> objs, ret |-> slot]

\* static getInstance(configuration = {}): the slot, the heap and the reference returned
getInstance(slot, objs, configuration) ==
  LET cfg == Default(configuration, EmptyObject)
      ref == Len(objs) + 1
  IN IF slot = NoInstance
     THEN [instance |-> ref, heap |-> Append(objs, KeyEventManager(ref, cfg)), ret |-> ref]
     ELSE [instance |-> slot, heap |-> objs, ret |-> slot]

\* clear() that leaves the slot as it is.
clearKeeps(slot) == slot

\* static clear(): delete this.instance
clear(slot) == NoInstance

\* _recordLastSeenEvent that keeps an event already recorded.
recordLastSeenEventOnce(self, event) ==
  IF self.lastEventSeen # Null
  THEN self
  ELSE [self EXCEPT !.lastEventSeen =
          [key |-> event.key, type |-> event.type, nativeEvent |-> event.nativeEvent]]

\* _recordLastSeenEvent({key, type, nativeEvent})
recordLastSeenEvent(self, event) ==
  [self EXCEPT !.lastEventSeen =
     [key |-> event.key, type |-> event.type, nativeEvent |-> event.nativeEvent]]

----------------------------------------------------------------------------
(* What a strategy does with a call the manager delegates to it.  An       *)
(* outcome is what the strategy answers: the value it returns or the       *)
(* failure it raises, and for a key event whether a handler handled it.    *)

EngineError == "EngineError"

\* A key event handler answers whether the event is done with, and a
\* handler failure is the strategy's failure.
HandleOutcomes ==
  [ret : {Bool(TRUE), Bool(FALSE)}, handled : BOOLEAN, raised : {NoError}]
    \cup [ret : {Undefined}, handled : {FALSE}, raised : {EngineError}]

\* The global strategy keeps its own record of the event.
GlobalHandleOutcomes == {out \in HandleOutcomes : ~out.handled}

AddOutcomes ==
  [ret : ComponentIds, raised : {NoError}] \cup [ret : {Undefined}, raised : {EngineError}]

UpdateOutcomes ==
  [ret : {Undefined}, raised : {NoError, EngineError}]

RemoveOutcomes ==
  [ret : {Bool(TRUE), Bool(FALSE)}, raised : {NoError}]
    \cup [ret : {Undefined}, raised : {EngineError}]

\* One call received by a strategy.
EngineCall(strategy, method, args, out) ==
  [strategy |-> strategy, method |-> method, args |-> args,
   ret |-> out.ret, raised |-> out.raised]

\* FocusOnlyKeyEventStrategy.handleKeydown/handleKeypress/handleKeyup: the
\* event becomes the strategy's current event {key, type, handled}.
FocusOnlyHandle(strategy, event, out) ==
  [strategy EXCEPT !.currentEvent =
     [key |-> event.key, type |-> event.type, handled |-> out.handled]]

\* What a manager method yields: the manager object after the call, the
\* value returned or the failure raised, the strategy calls made and the
\* focus tree ids isFromFocusOnlyComponent was asked about.
Result(self, ret, raised, delegated, consulted) ==
  [self |-> self, ret |-> ret, raised |-> raised, delegated |-> delegated,
   consulted |-> consulted]

\* return strategy.method(args): the strategy's value or failure, as it is
Forward(self, call) == Result(self, call.ret, call.raised, <<call>>, << >>)

----------------------------------------------------------------------------
(* KeyEventManager: focus key events *)

addHotKeys(self, actionNameToKeyMap, actionNameToHandlersMap, options, out) ==
  Forward(self,
    EngineCall("focusOnly", "addHotKeys",
      [actionNameToKeyMap |-> Default(actionNameToKeyMap, EmptyObject),
       actionNameToHandlersMap |-> Default(actionNameToHandlersMap, EmptyObject),
       options |-> options], out))

\* updateHotKeys with the strategy call inside a try whose catch is empty.
updateHotKeysSwallows(self, focusTreeId, componentId, actionNameToKeyMap, actionNameToHandlersMap, options, out) ==
  LET call == EngineCall("focusOnly", "updateHotKeys",
                [focusTreeId |-> focusTreeId, componentId |-> componentId,
                 actionNameToKeyMap |-> Default(actionNameToKeyMap, EmptyObject),
                 actionNameToHandlersMap |-> Default(actionNameToHandlersMap, EmptyObject),
                 options |-> options], out)
  IN Result(self, call.ret, NoError, <<call>>, << >>)

updateHotKeys(self, focusTreeId, componentId, actionNameToKeyMap, actionNameToHandlersMap, options, out) ==
  Forward(self,
    EngineCall("focusOnly", "updateHotKeys",
      [focusTreeId |-> focusTreeId, componentId |-> componentId,
       actionNameToKeyMap |-> Default(actionNameToKeyMap, EmptyObject),
       actionNameToHandlersMap |-> Default(actionNameToHandlersMap, EmptyObject),
       options |-> options], out))

\* removeHotKeys without the return in front of the strategy call.
removeHotKeysNoReturn(self, focusTreeId, componentId, out) ==
  LET call == EngineCall("focusOnly", "removeHotKeys",
                [focusTreeId |-> focusTreeId, componentId |-> componentId], out)
  IN Result(self, Undefined, call.raised, <<call>>, << >>)

removeHotKeys(self, focusTreeId, componentId, out) ==
  Forward(self,
    EngineCall("focusOnly", "removeHotKeys",
      [focusTreeId |-> focusTreeId, componentId |-> componentId], out))

\* handleKey without the return in front of the strategy call: the call is
\* made, its value dropped, and the event recorded as well.
handleKeyFallsThrough(method, self, event, focusTreeId, componentId, options, out) ==
  IF isFromFocusOnlyComponent(focusTreeId)
  THEN LET call == EngineCall("focusOnly", method,
                     [event |-> event, focusTreeId |-> focusTreeId,
                      componentId |-> componentId, options |-> options], out)
           strategy == FocusOnlyHandle(self.focusOnlyEventStrategy, event, out)
       IN Result(recordLastSeenEvent([self EXCEPT !.focusOnlyEventStrategy = strategy],
                                     event),
                 Undefined, call.raised, <<call>>, <<focusTreeId>>)
  ELSE Result(recordLastSeenEvent(self, event),
              Undefined, NoError, << >>, <<focusTreeId>>)

\* handleKey that hands every event to the focus-only strategy and records
\* those that isFromFocusOnlyComponent rejects afterwards.
handleKeyAlwaysDelegates(method, self, event, focusTreeId, componentId, options, out) ==
  LET call == EngineCall("focusOnly", method,
                [event |-> event, focusTreeId |-> focusTreeId,
                 componentId |-> componentId, options |-> options], out)
      strategy == FocusOnlyHandle(self.focusOnlyEventStrategy, event, out)
      delegated == [self EXCEPT !.focusOnlyEventStrategy = strategy]
  IN IF isFromFocusOnlyComponent(focusTreeId)
     THEN Result(delegated, call.ret, call.raised, <<call>>, <<focusTreeId>>)
     ELSE Result(recordLastSeenEvent(delegated, event),
                 Undefined, call.raised, <<call>>, <<focusTreeId>>)

\* The body shared by handleKeydown, handleKeypress and handleKeyup, which
\* differ in the strategy method they call.
handleKey(method, self, event, focusTreeId, componentId, options, out) ==
  IF isFromFocusOnlyComponent(focusTreeId)
  THEN LET call == EngineCall("focusOnly", method,
                     [event |-> event, focusTreeId |-> focusTreeId,
                      componentId |-> componentId, options |-> options], out)
           strategy == FocusOnlyHandle(self.focusOnlyEventStrategy, event, out)
       IN Result([self EXCEPT !.focusOnlyEventStrategy = strategy],
                 call.ret, call.raised, <<call>>, <<focusTreeId>>)
  ELSE Result(recordLastSeenEvent(self, event),
              Undefined, NoError, << >>, <<focusTreeId>>)

handleKeydown(self, event, focusTreeId, componentId, options, out) ==
  handleKey("handleKeydown", self, event, focusTreeId, componentId, options, out)

handleKeypress(self, event, focusTreeId, componentId, options, out) ==
  handleKey("handleKeypress", self, event, focusTreeId, componentId, options, out)

handleKeyup(self, event, focusTreeId, componentId, options, out) ==
  handleKey("handleKeyup", self, event, focusTreeId, componentId, options, out)

----------------------------------------------------------------------------
(* KeyEventManager: global key events *)

\* addGlobalHotKeys without the default values of its two maps.
addGlobalHotKeysNoDefaults(self, actionNameToKeyMap, actionNameToHandlersMap, options, eventOptions, out) ==
  Forward(self,
    EngineCall("global", "addHotKeys",
      [actionNameToKeyMap |-> actionNameToKeyMap,
       actionNameToHandlersMap |-> actionNameToHandlersMap,
       options |-> options, eventOptions |-> eventOptions], out))

addGlobalHotKeys(self, actionNameToKeyMap, actionNameToHandlersMap, options, eventOptions, out) ==
  Forward(self,
    EngineCall("global", "addHotKeys",
      [actionNameToKeyMap |-> Default(actionNameToKeyMap, EmptyObject),
       actionNameToHandlersMap |-> Default(actionNameToHandlersMap, EmptyObject),
       options |-> options, eventOptions |-> eventOptions], out))

updateGlobalHotKeys(self, componentId, actionNameToKeyMap, actionNameToHandlersMap, options, eventOptions, out) ==
  Forward(self,
    EngineCall("global", "updateHotKeys",
      [componentId |-> componentId,
       actionNameToKeyMap |-> Default(actionNameToKeyMap, EmptyObject),
       actionNameToHandlersMap |-> Default(actionNameToHandlersMap, EmptyObject),
       options |-> options, eventOptions |-> eventOptions], out))

removeGlobalHotKeys(self, componentId, out) ==
  Forward(self, EngineCall("global", "removeHotKeys", [componentId |-> componentId], out))

\* handleGlobalKeydown written as a call of this.handleKeydown(event): no
\* focus tree id, so the event is classified and recorded.
handleGlobalKeydownClassified(self, event, out) ==
  IF isFromFocusOnlyComponent(Undefined)
  THEN Forward(self, EngineCall("focusOnly", "handleKeydown", [event |-> event], out))
  ELSE Result(recordLastSeenEvent(self, event), Undefined, NoError, << >>, <<Undefined>>)

handleGlobalKeydown(self, event, out) ==
  Forward(self, EngineCall("global", "handleKeydown", [event |-> event], out))

\* handleGlobalKeypress that records the event as the last seen one too.
handleGlobalKeypressRecords(self, event, out) ==
  Forward(recordLastSeenEvent(self, event),
          EngineCall("global", "handleKeypress", [event |-> event], out))

handleGlobalKeypress(self, event, out) ==
  Forward(self, EngineCall("global", "handleKeypress", [event |-> event], out))

\* handleGlobalKeyup that hands the event to the global strategy twice.
handleGlobalKeyupTwice(self, event, out) ==
  LET call == EngineCall("global", "handleKeyup", [event |-> event], out)
  IN Result(self, call.ret, call.raised, <<call, call>>, << >>)

handleGlobalKeyup(self, event, out) ==
  Forward(self, EngineCall("global", "handleKeyup", [event |-> event], out))

----------------------------------------------------------------------------
(* KeyEventManager: the history of the focus-only strategy's current event *)

TypeError == "TypeError"

\* reactAppHistoryWithEvent that compares the key and not the type.
reactAppHistoryWithEventAnyType(self, key, type) ==
  LET currentEvent == self.focusOnlyEventStrategy.currentEvent IN
  IF currentEvent \in {Undefined, Null}
  THEN Result(self, Undefined, TypeError, << >>, << >>)
  ELSE IF currentEvent.key = key
       THEN IF currentEvent.handled
            THEN Result(self, Str("handled"), NoError, << >>, << >>)
            ELSE Result(self, Str("seen"), NoError, << >>, << >>)
       ELSE Result(self, Str("unseen"), NoError, << >>, << >>)

\* reactAppHistoryWithEvent that marks a matching current event as handled
\* once it has been asked about.
reactAppHistoryWithEventMarks(self, key, type) ==
  LET currentEvent == self.focusOnlyEventStrategy.currentEvent IN
  IF currentEvent \in {Undefined, Null}
  THEN Result(self, Undefined, TypeError, << >>, << >>)
  ELSE IF currentEvent.key = key /\ currentEvent.type = type
       THEN IF currentEvent.handled
            THEN Result(self, Str("handled"), NoError, << >>, << >>)
            ELSE Result([self EXCEPT !.focusOnlyEventStrategy.currentEvent.handled = TRUE],
                        Str("seen"), NoError, << >>, << >>)
       ELSE Result(self, Str("unseen"), NoError, << >>, << >>)

\* reactAppHistoryWithEvent that also answers seen for the key and type of
\* lastEventSeen.
reactAppHistoryWithEventLastSeen(self, key, type) ==
  LET currentEvent == self.focusOnlyEventStrategy.currentEvent IN
  IF currentEvent \in {Undefined, Null}
  THEN Result(self, Undefined, TypeError, << >>, << >>)
  ELSE IF currentEvent.key = key /\ currentEvent.type = type
       THEN IF currentEvent.handled
            THEN Result(self, Str("handled"), NoError, << >>, << >>)
            ELSE Result(self, Str("seen"), NoError, << >>, << >>)
       ELSE IF /\ self.lastEventSeen \notin {Undefined, Null}
               /\ self.lastEventSeen.key = key
               /\ self.lastEventSeen.type = type
            THEN Result(self, Str("seen"), NoError, << >>, << >>)
            ELSE Result(self, Str("unseen"), NoError, << >>, << >>)

\* reactAppHistoryWithEvent(key, type).  Reading a property of undefined
\* or null raises a TypeError.
reactAppHistoryWithEvent(self, key, type) ==
  LET currentEvent == self.focusOnlyEventStrategy.currentEvent IN
  IF currentEvent \in {Undefined, Null}
  THEN Result(self, Undefined, TypeError, << >>, << >>)
  ELSE IF currentEvent.key = key /\ currentEvent.type = type
       THEN IF currentEvent.handled
            THEN Result(self, Str("handled"), NoError, << >>, << >>)
            ELSE Result(self, Str("seen"), NoError, << >>, << >>)
       ELSE Result(self, Str("unseen"), NoError, << >>, << >>)

----------------------------------------------------------------------------
(* The record of a call *)

Call(op, self, args, ret, raised, delegated, consulted) ==
  [op |-> op, self |-> self, args |-> args, ret |-> ret, raised |-> raised,
   delegated |-> delegated, consulted |-> consulted]

----------------------------------------------------------------------------
(* Actions *)

\* The calls that hand a key event of a component to the manager.
HandleOps == {"handleKeydown", "handleKeypress", "handleKeyup"}

\* The calls that hand a key event of the document to the manager.
HandleGlobalOps == {"handleGlobalKeydown", "handleGlobalKeypress", "handleGlobalKeyup"}

Init ==
  /\ instance = NoInstance
  /\ heap = << >>
  /\ last = Call("none", NoInstance, EmptyObject, Undefined, NoError, << >>, << >>)
  /\ returned = << >>
  /\ calls = 0
  /\ trace = [on |-> FALSE, issued |-> << >>, received |-> << >>]

GetInstance ==
  /\ calls < MaxCalls
  /\ \E configuration \in Configurations :
       LET r == getInstance(instance, heap, configuration) IN
       /\ Len(r.heap) <= MaxInstances
       /\ instance' = r.instance
       /\ heap' = r.heap
       /\ last' = Call("getInstance", NoInstance, [configuration |-> configuration],
                       Num(r.ret), NoError, << >>, << >>)
       /\ returned' = Append(returned, [configuration |-> configuration, ref |-> r.ret])
       /\ calls' = calls + 1
       /\ trace' = trace

Clear ==
  /\ calls < MaxCalls
  /\ instance' = clear(instance)
  /\ heap' = heap
  /\ last' = Call("clear", NoInstance, EmptyObject, Undefined, NoError, << >>, << >>)
  /\ returned' = << >>
  /\ calls' = calls + 1
  /\ trace' = trace

\* The trace after the call op(args) on the object ref: a key event call is
\* appended to the calls made, and the strategy calls it made, as they were
\* made, to the calls received.
Traced(op, ref, args, delegated) ==
  IF trace.on /\ op \in HandleOps \cup HandleGlobalOps
  THEN [trace EXCEPT
          !.issued = Append(@, [self |-> ref, op |-> op, args |-> args]),
          !.received = @ \o [i \in 1..Len(delegated) |->
                               [self |-> ref, strategy |-> delegated[i].strategy,
                                method |-> delegated[i].method,
                                args |-> delegated[i].args]]]
  ELSE trace

\* A method call whose effects land on the object in the static slot instead
\* of the object the method was called on.
InvokeOnInstance(op, ref, args, r) ==
  /\ instance' = instance
  /\ heap' = [heap EXCEPT ![IF instance # NoInstance THEN instance ELSE ref] = r.self]
  /\ last' = Call(op, ref, args, r.ret, r.raised, r.delegated, r.consulted)
  /\ returned' = returned
  /\ calls' = calls + 1
  /\ trace' = Traced(op, ref, args, r.delegated)

\* A method call on the manager object a caller holds: the current
\* instance, or one obtained before a clear().
Invoke(op, ref, args, r) ==
  /\ instance' = instance
  /\ heap' = [heap EXCEPT ![ref] = r.self]
  /\ last' = Call(op, ref, args, r.ret, r.raised, r.delegated, r.consulted)
  /\ returned' = returned
  /\ calls' = calls + 1
  /\ trace' = Traced(op, ref, args, r.delegated)

AddHotKeys ==
  /\ calls < MaxCalls
  /\ \E ref \in DOMAIN heap, keyMap \in KeyMaps, handlers \in HandlersMaps,
        options \in OptionsSet, out \in AddOutcomes :
       Invoke("addHotKeys", ref,
              [actionNameToKeyMap |-> keyMap, actionNameToHandlersMap |-> handlers,
               options |-> options],
              addHotKeys(heap[ref], keyMap, handlers, options, out))

UpdateHotKeys ==
  /\ calls < MaxCalls
  /\ \E ref \in DOMAIN heap, focusTreeId \in FocusTreeIds, componentId \in ComponentIds,
        keyMap \in KeyMaps, handlers \in HandlersMaps, options \in OptionsSet,
        out \in UpdateOutcomes :
       Invoke("updateHotKeys", ref,
              [focusTreeId |-> focusTreeId, componentId |-> componentId,
               actionNameToKeyMap |-> keyMap, actionNameToHandlersMap |-> handlers,
               options |-> options],
              updateHotKeys(heap[ref], focusTreeId, componentId, keyMap, handlers,
                            options, out))

RemoveHotKeys ==
  /\ calls < MaxCalls
  /\ \E ref \in DOMAIN heap, focusTreeId \in FocusTreeIds, componentId \in ComponentIds,
        out \in RemoveOutcomes :
       Invoke("removeHotKeys", ref,
              [focusTreeId |-> focusTreeId, componentId |-> componentId],
              removeHotKeys(heap[ref], focusTreeId, componentId, out))

HandleKeydown ==
  /\ calls < MaxCalls
  /\ \E ref \in DOMAIN heap, event \in EventsOf("keydown"), focusTreeId \in FocusTreeIds,
        componentId \in EventComponentIds, options \in OptionsSet, out \in HandleOutcomes :
       Invoke("handleKeydown", ref,
              [event |-> event, focusTreeId |-> focusTreeId, componentId |-> componentId,
               options |-> options],
              handleKeydown(heap[ref], event, focusTreeId, componentId, options, out))

HandleKeypress ==
  /\ calls < MaxCalls
  /\ \E ref \in DOMAIN heap, event \in EventsOf("keypress"), focusTreeId \in FocusTreeIds,
        componentId \in EventComponentIds, options \in OptionsSet, out \in HandleOutcomes :
       Invoke("handleKeypress", ref,
              [event |-> event, focusTreeId |-> focusTreeId, componentId |-> componentId,
               options |-> options],
              handleKeypress(heap[ref], event, focusTreeId, componentId, options, out))

HandleKeyup ==
  /\ calls < MaxCalls
  /\ \E ref \in DOMAIN heap, event \in EventsOf("keyup"), focusTreeId \in FocusTreeIds,
        componentId \in EventComponentIds, options \in OptionsSet, out \in HandleOutcomes :
       Invoke("handleKeyup", ref,
              [event |-> event, focusTreeId |-> focusTreeId, componentId |-> componentId,
               options |-> options],
              handleKeyup(heap[ref], event, focusTreeId, componentId, options, out))

AddGlobalHotKeys ==
  /\ calls < MaxCalls
  /\ \E ref \in DOMAIN heap, keyMap \in KeyMaps, handlers \in HandlersMaps,
        options \in OptionsSet, eventOptions \in EventOptionsSet, out \in AddOutcomes :
       Invoke("addGlobalHotKeys", ref,
              [actionNameToKeyMap |-> keyMap, actionNameToHandlersMap |-> handlers,
               options |-> options, eventOptions |-> eventOptions],
              addGlobalHotKeys(heap[ref], keyMap, handlers, options, eventOptions, out))

UpdateGlobalHotKeys ==
  /\ calls < MaxCalls
  /\ \E ref \in DOMAIN heap, componentId \in ComponentIds, keyMap \in KeyMaps,
        handlers \in HandlersMaps, options \in OptionsSet,
        eventOptions \in EventOptionsSet, out \in UpdateOutcomes :
       Invoke("updateGlobalHotKeys", ref,
              [componentId |-> componentId, actionNameToKeyMap |-> keyMap,
               actionNameToHandlersMap |-> handlers, options |-> options,
               eventOptions |-> eventOptions],
              updateGlobalHotKeys(heap[ref], componentId, keyMap, handlers, options,
                                  eventOptions, out))

RemoveGlobalHotKeys ==
  /\ calls < MaxCalls
  /\ \E ref \in DOMAIN heap, componentId \in ComponentIds, out \in RemoveOutcomes :
       Invoke("removeGlobalHotKeys", ref, [componentId |-> componentId],
              removeGlobalHotKeys(heap[ref], componentId, out))

HandleGlobalKeydown ==
  /\ calls < MaxCalls
  /\ \E ref \in DOMAIN heap, event \in EventsOf("keydown"), out \in GlobalHandleOutcomes :
       Invoke("handleGlobalKeydown", ref, [event |-> event],
              handleGlobalKeydown(heap[ref], event, out))

HandleGlobalKeypress ==
  /\ calls < MaxCalls
  /\ \E ref \in DOMAIN heap, event \in EventsOf("keypress"), out \in GlobalHandleOutcomes :
       Invoke("handleGlobalKeypress", ref, [event |-> event],
              handleGlobalKeypress(heap[ref], event, out))

HandleGlobalKeyup ==
  /\ calls < MaxCalls
  /\ \E ref \in DOMAIN heap, event \in EventsOf("keyup"), out \in GlobalHandleOutcomes :
       Invoke("handleGlobalKeyup", ref, [event |-> event],
              handleGlobalKeyup(heap[ref], event, out))

ReactAppHistoryWithEvent ==
  /\ calls < MaxCalls
  /\ \E ref \in DOMAIN heap, key \in Keys, type \in Types :
       Invoke("reactAppHistoryWithEvent", ref, [key |-> key, type |-> type],
              reactAppHistoryWithEvent(heap[ref], key, type))

Next ==
  \/ GetInstance
  \/ Clear
  \/ AddHotKeys
  \/ UpdateHotKeys
  \/ RemoveHotKeys
  \/ HandleKeydown
  \/ HandleKeypress
  \/ HandleKeyup
  \/ AddGlobalHotKeys
  \/ UpdateGlobalHotKeys
  \/ RemoveGlobalHotKeys
  \/ HandleGlobalKeydown
  \/ HandleGlobalKeypress
  \/ HandleGlobalKeyup
  \/ ReactAppHistoryWithEvent

Spec == Init /\ [][Next]_vars

----------------------------------------------------------------------------
(* Sequences of key event calls, traced.  The trace grows with every call, *)
(* so the calls draw from fewer events and strategy outcomes: one native   *)
(* event, and a strategy that answers true or fails.                       *)

OrderEventsOf(type) == {e \in EventsOf(type) : e.nativeEvent = "n1"}

OrderOutcomes == {out \in GlobalHandleOutcomes : out.ret # Bool(FALSE)}

InitOrder ==
  /\ instance = NoInstance
  /\ heap = << >>
  /\ last = Call("none", NoInstance, EmptyObject, Undefined, NoError, << >>, << >>)
  /\ returned = << >>
  /\ calls = 0
  /\ trace = [on |-> TRUE, issued |-> << >>, received |-> << >>]

OrderHandleKeydown ==
  /\ calls < MaxCalls
  /\ \E ref \in DOMAIN heap, event \in OrderEventsOf("keydown"), focusTreeId \in FocusTreeIds,
        componentId \in EventComponentIds, options \in OptionsSet, out \in OrderOutcomes :
       Invoke("handleKeydown", ref,
              [event |-> event, focusTreeId |-> focusTreeId, componentId |-> componentId,
               options |-> options],
              handleKeydown(heap[ref], event, focusTreeId, componentId, options, out))

OrderHandleKeypress ==
  /\ calls < MaxCalls
  /\ \E ref \in DOMAIN heap, event \in OrderEventsOf("keypress"), focusTreeId \in FocusTreeIds,
        componentId \in EventComponentIds, options \in OptionsSet, out \in OrderOutcomes :
       Invoke("handleKeypress", ref,
              [event |-> event, focusTreeId |-> focusTreeId, componentId |-> componentId,
               options |-> options],
              handleKeypress(heap[ref], event, focusTreeId, componentId, options, out))

OrderHandleKeyup ==
  /\ calls < MaxCalls
  /\ \E ref \in DOMAIN heap, event \in OrderEventsOf("keyup"), focusTreeId \in FocusTreeIds,
        componentId \in EventComponentIds, options \in OptionsSet, out \in OrderOutcomes :
       Invoke("handleKeyup", ref,
              [event |-> event, focusTreeId |-> focusTreeId, componentId |-> componentId,
               options |-> options],
              handleKeyup(heap[ref], event, focusTreeId, componentId, options, out))

OrderHandleGlobalKeydown ==
  /\ calls < MaxCalls
  /\ \E ref \in DOMAIN heap, event \in OrderEventsOf("keydown"), out \in OrderOutcomes :
       Invoke("handleGlobalKeydown", ref, [event |-> event],
              handleGlobalKeydown(heap[ref], event, out))

OrderHandleGlobalKeypress ==
  /\ calls < MaxCalls
  /\ \E ref \in DOMAIN heap, event \in OrderEventsOf("keypress"), out \in OrderOutcomes :
       Invoke("handleGlobalKeypress", ref, [event |-> event],
              handleGlobalKeypress(heap[ref], event, out))

OrderHandleGlobalKeyup ==
  /\ calls < MaxCalls
  /\ \E ref \in DOMAIN heap, event \in OrderEventsOf("keyup"), out \in OrderOutcomes :
       Invoke("handleGlobalKeyup", ref, [event |-> event],
              handleGlobalKeyup(heap[ref], event, out))

NextOrder ==
  \/ GetInstance
  \/ Clear
  \/ OrderHandleKeydown
  \/ OrderHandleKeypress
  \/ OrderHandleKeyup
  \/ OrderHandleGlobalKeydown
  \/ OrderHandleGlobalKeypress
  \/ OrderHandleGlobalKeyup

SpecOrder == InitOrder /\ [][NextOrder]_vars

----------------------------------------------------------------------------
(* Properties *)

\* The configuration a getInstance call works with.
GivenConfiguration(call) == Default(call.args.configuration, EmptyObject)

\* The logger a manager built with cfg has: the configuration's own, or one
\* of level warn.
ExpectedLogger(cfg) ==
  IF cfg = EmptyObject THEN [level |-> "warn"] ELSE cfg.logger

\* C1: any two getInstance calls with no clear() between them return the
\* same instance, whatever configurations they are given.
C1_SameInstanceBetweenClears ==
  \A i, j \in DOMAIN returned : returned[i].ref = returned[j].ref

\* Two getInstance calls with different configurations and no clear() between.
C1_Witness ==
  \E i, j \in DOMAIN returned :
    /\ i < j
    /\ returned[i].configuration # returned[j].configuration
    /\ last.op = "getInstance"

\* C2: the first getInstance after a clear() returns an object that is none
\* of the objects that existed before, makes it the instance, leaves the
\* earlier objects as they were, and the new object has lastEventSeen null
\* and two strategies just built from the call's configuration (the
\* focus-only strategy without a current event, the global strategy
\* referring back to the new object).
C2_FreshInstanceAfterClear ==
  [][(instance = NoInstance /\ heap # << >> /\ last'.op = "getInstance") =>
       LET ref == last'.ret.num
           cfg == GivenConfiguration(last')
       IN /\ ref \notin DOMAIN heap
          /\ ref \in DOMAIN heap'
          /\ instance' = ref
          /\ \A old \in DOMAIN heap : heap'[old] = heap[old]
          /\ heap'[ref].lastEventSeen = Null
          /\ heap'[ref].logger = ExpectedLogger(cfg)
          /\ heap'[ref].focusOnlyEventStrategy =
               [configuration |-> cfg, logger |-> ExpectedLogger(cfg),
                currentEvent |-> Undefined]
          /\ heap'[ref].globalEventStrategy =
               [configuration |-> cfg, logger |-> ExpectedLogger(cfg),
                keyEventManager |-> ref]]_vars

\* A getInstance has followed a clear() of an instance that had recorded an
\* event: the second object is the instance, with no event recorded.
C2_Witness ==
  /\ last.op = "getInstance"
  /\ Len(returned) = 1
  /\ Len(heap) = 2
  /\ instance = 2
  /\ heap[1].lastEventSeen # Null
  /\ heap[2].lastEventSeen = Null

\* C3: while an instance exists, a getInstance call given a configuration
\* other than the one the instance was built with returns that instance and
\* changes neither the slot nor any object: the logger, the two strategies
\* and their configuration stay as built.
C3_ConfigurationIgnored ==
  [][(/\ instance # NoInstance
      /\ last'.op = "getInstance"
      /\ GivenConfiguration(last') # heap[instance].focusOnlyEventStrategy.configuration) =>
       /\ last'.ret = Num(instance)
       /\ instance' = instance
       /\ heap' = heap]_vars

\* A getInstance call given a logger has returned the instance built
\* without one, whose logger is still the default one.
C3_Witness ==
  /\ last.op = "getInstance"
  /\ Len(returned) >= 2
  /\ instance # NoInstance
  /\ last.args.configuration = [logger |-> CustomLogger]
  /\ heap[instance].focusOnlyEventStrategy.configuration = EmptyObject
  /\ heap[instance].logger = [level |-> "warn"]

\* The global calls, each with the method of the global strategy it is for.
GlobalMethod ==
  [addGlobalHotKeys |-> "addHotKeys", updateGlobalHotKeys |-> "updateHotKeys",
   removeGlobalHotKeys |-> "removeHotKeys", handleGlobalKeydown |-> "handleKeydown",
   handleGlobalKeypress |-> "handleKeypress", handleGlobalKeyup |-> "handleKeyup"]

\* C4: when isFromFocusOnlyComponent answers true for the focus tree id of
\* a handleKeydown, handleKeypress or handleKeyup call, the focus-only
\* strategy's handler of the same name is called once with the call's
\* arguments, the call returns (or raises) exactly what that handler did, and
\* the object's lastEventSeen is what it was before the call.
C4_FocusOnlyEventDelegated ==
  [][(last'.op \in HandleOps /\ isFromFocusOnlyComponent(last'.args.focusTreeId)) =>
       /\ Len(last'.delegated) = 1
       /\ last'.delegated[1].strategy = "focusOnly"
       /\ last'.delegated[1].method = last'.op
       /\ last'.delegated[1].args = last'.args
       /\ last'.ret = last'.delegated[1].ret
       /\ last'.raised = last'.delegated[1].raised
       /\ heap'[last'.self].lastEventSeen = heap[last'.self].lastEventSeen]_vars

\* A handleKeydown for a focus tree has returned the strategy's true on an
\* object that had recorded an event before.
C4_Witness ==
  /\ last.op = "handleKeydown"
  /\ isFromFocusOnlyComponent(last.args.focusTreeId)
  /\ last.ret = Bool(TRUE)
  /\ heap[last.self].lastEventSeen # Null

\* C5: when isFromFocusOnlyComponent answers false for the focus tree id of
\* a handleKeydown, handleKeypress or handleKeyup call, the call returns
\* undefined and the object's lastEventSeen is then {key, type, nativeEvent}
\* of the call's event, whatever it was before.
C5_OtherEventRecorded ==
  (last.op \in HandleOps /\ ~isFromFocusOnlyComponent(last.args.focusTreeId)) =>
    /\ last.ret = Undefined
    /\ last.raised = NoError
    /\ heap[last.self].lastEventSeen =
         [key |-> last.args.event.key, type |-> last.args.event.type,
          nativeEvent |-> last.args.event.nativeEvent]

\* A handleKeyup without a focus tree id, made after at least two other
\* calls, has recorded the keyup of b.
C5_Witness ==
  /\ last.op = "handleKeyup"
  /\ ~isFromFocusOnlyComponent(last.args.focusTreeId)
  /\ heap[last.self].lastEventSeen = [key |-> "b", type |-> "keyup", nativeEvent |-> "n2"]
  /\ calls >= 3

\* C6: when isFromFocusOnlyComponent answers false for the focus tree id of
\* a handleKeydown, handleKeypress or handleKeyup call, no method of the
\* focus-only strategy (of any strategy) is called and the focus-only
\* strategy is after the call what it was before.
C6_OtherEventNotDelegated ==
  [][(last'.op \in HandleOps /\ ~isFromFocusOnlyComponent(last'.args.focusTreeId)) =>
       /\ last'.delegated = << >>
       /\ heap'[last'.self].focusOnlyEventStrategy =
            heap[last'.self].focusOnlyEventStrategy]_vars

\* A handleKeypress without a focus tree id on an object whose focus-only
\* strategy has a current event.
C6_Witness ==
  /\ last.op = "handleKeypress"
  /\ ~isFromFocusOnlyComponent(last.args.focusTreeId)
  /\ heap[last.self].focusOnlyEventStrategy.currentEvent # Undefined

\* C7: each addGlobalHotKeys, updateGlobalHotKeys, removeGlobalHotKeys,
\* handleGlobalKeydown, handleGlobalKeypress and handleGlobalKeyup call makes
\* exactly one strategy call, the global strategy's method it is for, and
\* isFromFocusOnlyComponent is not asked.
C7_GlobalCallsReachGlobalStrategy ==
  last.op \in DOMAIN GlobalMethod =>
    /\ Len(last.delegated) = 1
    /\ last.delegated[1].strategy = "global"
    /\ last.delegated[1].method = GlobalMethod[last.op]
    /\ last.consulted = << >>

\* A handleGlobalKeydown on an object that has recorded an event whose focus
\* tree id isFromFocusOnlyComponent rejected.
C7_Witness ==
  /\ last.op = "handleGlobalKeydown"
  /\ Len(last.delegated) = 1
  /\ heap[last.self].lastEventSeen # Null

\* C8: handleGlobalKeydown, handleGlobalKeypress and handleGlobalKeyup return
\* (or raise) what the global strategy's handler did and leave the object's
\* lastEventSeen as it was before the call.
C8_GlobalEventNotRecorded ==
  [][last'.op \in HandleGlobalOps =>
       /\ Len(last'.delegated) = 1
       /\ last'.ret = last'.delegated[1].ret
       /\ last'.raised = last'.delegated[1].raised
       /\ heap'[last'.self].lastEventSeen = heap[last'.self].lastEventSeen]_vars

\* A handleGlobalKeypress has returned the global strategy's true on an
\* object whose lastEventSeen holds an event.
C8_Witness ==
  /\ last.op = "handleGlobalKeypress"
  /\ last.ret = Bool(TRUE)
  /\ heap[last.self].lastEventSeen # Null

\* The focus-only strategy's current event on the object of the last call.
CurrentEventOfLast == heap[last.self].focusOnlyEventStrategy.currentEvent

\* C9: with a current event {key, type, handled} in the focus-only strategy,
\* reactAppHistoryWithEvent(key, type) returns handled when key and type are
\* the current event's and it is handled, seen when they are and it is not
\* handled, unseen when the key or the type differs.
C9_HistoryOfCurrentEvent ==
  (last.op = "reactAppHistoryWithEvent" /\ CurrentEventOfLast # Undefined) =>
    LET same == /\ CurrentEventOfLast.key = last.args.key
                /\ CurrentEventOfLast.type = last.args.type
    IN /\ last.raised = NoError
       /\ (same /\ CurrentEventOfLast.handled) => last.ret = Str("handled")
       /\ (same /\ ~CurrentEventOfLast.handled) => last.ret = Str("seen")
       /\ ~same => last.ret = Str("unseen")

\* A query for the key and type of a handled current event.
C9_Witness ==
  /\ last.op = "reactAppHistoryWithEvent"
  /\ CurrentEventOfLast # Undefined
  /\ last.ret = Str("handled")

\* C10: without a current event in the focus-only strategy,
\* reactAppHistoryWithEvent(key, type) returns unseen and does not fail.
C10_NoCurrentEventIsUnseen ==
  (last.op = "reactAppHistoryWithEvent" /\ CurrentEventOfLast = Undefined) =>
    /\ last.raised = NoError
    /\ last.ret = Str("unseen")

\* C11: removeHotKeys(focusTreeId, componentId) calls the focus-only
\* strategy's removeHotKeys once with the same two arguments and returns
\* exactly the boolean it answers; addHotKeys calls the strategy's addHotKeys
\* once and returns exactly the component id it answers.
C11_RegistrationResultUnchanged ==
  last.op \in {"addHotKeys", "removeHotKeys"} =>
    /\ Len(last.delegated) = 1
    /\ last.delegated[1].strategy = "focusOnly"
    /\ last.delegated[1].method = last.op
    /\ last.ret = last.delegated[1].ret
    /\ last.raised = last.delegated[1].raised
    /\ last.op = "removeHotKeys" => last.delegated[1].args = last.args
    /\ (last.op = "removeHotKeys" /\ last.raised = NoError) =>
         last.ret \in {Bool(TRUE), Bool(FALSE)}
    /\ (last.op = "addHotKeys" /\ last.raised = NoError) => last.ret \in ComponentIds

\* A removeHotKeys has returned the strategy's false.
C11_Witness ==
  /\ last.op = "removeHotKeys"
  /\ Len(last.delegated) = 1
  /\ last.delegated[1].ret = Bool(FALSE)
  /\ last.ret = Bool(FALSE)

\* The calls that take an action-key map and an action-handler map.
MapOps == {"addHotKeys", "updateHotKeys", "addGlobalHotKeys", "updateGlobalHotKeys"}

\* What the strategy is to receive for a map argument.
ExpectedMap(given) == IF given = Undefined THEN EmptyObject ELSE given

\* C12: in an addHotKeys, updateHotKeys, addGlobalHotKeys or
\* updateGlobalHotKeys call, an absent action-key map or action-handler map
\* raises no failure of the manager's own: the strategy is called once and
\* receives an empty object for each absent map, a given map as it is, and
\* every other argument as it was passed.
C12_AbsentMapsDefaultToEmpty ==
  last.op \in MapOps =>
    /\ Len(last.delegated) = 1
    /\ last.raised = last.delegated[1].raised
    /\ DOMAIN last.delegated[1].args = DOMAIN last.args
    /\ \A name \in DOMAIN last.args :
         last.delegated[1].args[name] =
           IF name \in {"actionNameToKeyMap", "actionNameToHandlersMap"}
           THEN ExpectedMap(last.args[name])
           ELSE last.args[name]

\* An updateGlobalHotKeys without an action-key map and with handlers.
C12_Witness ==
  /\ last.op = "updateGlobalHotKeys"
  /\ last.args.actionNameToKeyMap = Undefined
  /\ last.args.actionNameToHandlersMap # Undefined
  /\ last.raised = NoError
  /\ last.delegated[1].args.actionNameToKeyMap = EmptyObject

\* C13: the slot holds no instance or one object: none before the first
\* getInstance, none right after a clear(), and from a getInstance until the
\* next clear() the one object that getInstance returned.
C13_AtMostOneInstance ==
  /\ instance = NoInstance \/ instance \in DOMAIN heap
  /\ heap = << >> => instance = NoInstance
  /\ last.op = "clear" => instance = NoInstance
  /\ returned = << >> => instance = NoInstance
  /\ returned # << >> =>
       /\ instance # NoInstance
       /\ \A i \in DOMAIN returned : returned[i].ref = instance

\* The second object is the instance, an earlier one having been cleared,
\* and stays so through a call that is not getInstance.
C13_Witness ==
  /\ Len(heap) = 2
  /\ instance = 2
  /\ last.op \notin {"getInstance", "clear"}

\* C18: clear() empties the slot in every state and does nothing else: it
\* raises nothing and touches no object; with the slot already empty (no
\* getInstance yet, or a clear() just before) it changes nothing, so two
\* clear() in a row leave what one leaves.
C18_ClearAlwaysDiscards ==
  [][last'.op = "clear" =>
       /\ instance' = NoInstance
       /\ last'.raised = NoError
       /\ heap' = heap
       /\ returned' = << >>
       /\ instance = NoInstance => (instance' = instance /\ returned' = returned)
       /\ last.op = "clear" =>
            <<instance, heap, returned, last>>' = <<instance, heap, returned, last>>]_vars

\* Two clear() in a row, before any getInstance.
C18_Witness ==
  /\ last.op = "clear"
  /\ calls = 2
  /\ heap = << >>
  /\ instance = NoInstance

\* The step is a handleKeydown, handleKeypress or handleKeyup call on the
\* object ref for which isFromFocusOnlyComponent answered false.
RecordingStepOn(ref) ==
  /\ last'.op \in HandleOps
  /\ last'.self = ref
  /\ ~isFromFocusOnlyComponent(last'.args.focusTreeId)

\* {key, type, nativeEvent} of an event.
LastSeenOf(event) ==
  [key |-> event.key, type |-> event.type, nativeEvent |-> event.nativeEvent]

\* C14: an object's lastEventSeen is null when the object is constructed,
\* becomes {key, type, nativeEvent} of the event in every handleKeydown,
\* handleKeypress or handleKeyup call on it that isFromFocusOnlyComponent
\* rejects, and is left as it is by every other call.  So it is null until
\* the first such call and the event of the most recent such call after.
C14_LastEventSeenWrittenOnlyByRecording ==
  [][\A ref \in DOMAIN heap' :
       heap'[ref].lastEventSeen =
         IF ref \notin DOMAIN heap THEN Null
         ELSE IF RecordingStepOn(ref) THEN LastSeenOf(last'.args.event)
         ELSE heap[ref].lastEventSeen]_vars

\* A history query on an object that has recorded a keypress before.
C14_Witness ==
  /\ last.op = "reactAppHistoryWithEvent"
  /\ heap[last.self].lastEventSeen # Null
  /\ heap[last.self].lastEventSeen.type = "keypress"

\* C15: the current event of an object's focus-only strategy changes only
\* in a handleKeydown, handleKeypress or handleKeyup call on that object that
\* is handed to the focus-only strategy; a history query and a call that
\* only records the event leave it as it is.
C15_CurrentEventWrittenOnlyByStrategy ==
  [][\A ref \in DOMAIN heap :
       heap'[ref].focusOnlyEventStrategy.currentEvent #
           heap[ref].focusOnlyEventStrategy.currentEvent =>
         /\ last'.self = ref
         /\ last'.op \in HandleOps
         /\ isFromFocusOnlyComponent(last'.args.focusTreeId)
         /\ Len(last'.delegated) = 1
         /\ last'.delegated[1].strategy = "focusOnly"]_vars

\* A history query has answered seen: the current event it matched is
\* still there, not handled.
C15_Witness ==
  /\ last.op = "reactAppHistoryWithEvent"
  /\ last.ret = Str("seen")
  /\ CurrentEventOfLast # Undefined
  /\ ~CurrentEventOfLast.handled

\* C16: when the strategy call a manager call makes raises a failure, the
\* manager call raises that failure, and neither the slot nor the object's
\* lastEventSeen changes.
C16_StrategyFailurePropagates ==
  [][(last'.delegated # << >> /\ last'.delegated[1].raised # NoError) =>
       /\ Len(last'.delegated) = 1
       /\ last'.raised = last'.delegated[1].raised
       /\ instance' = instance
       /\ heap'[last'.self].lastEventSeen = heap[last'.self].lastEventSeen]_vars

\* An updateHotKeys has failed with the strategy's failure on an object that
\* had recorded an event.
C16_Witness ==
  /\ last.op = "updateHotKeys"
  /\ last.raised = EngineError
  /\ heap[last.self].lastEventSeen # Null

\* C19: a handleKeydown, handleKeypress or handleKeyup call that
\* isFromFocusOnlyComponent rejects changes the lastEventSeen of the object
\* it is called on and nothing else: every other object, older or newer,
\* the called object's strategies and the slot stay as they were.
C19_ObjectsIsolated ==
  [][\A ref \in DOMAIN heap :
       RecordingStepOn(ref) =>
         /\ instance' = instance
         /\ DOMAIN heap' = DOMAIN heap
         /\ \A other \in DOMAIN heap \ {ref} : heap'[other] = heap[other]
         /\ heap'[ref] =
              [heap[ref] EXCEPT !.lastEventSeen = LastSeenOf(last'.args.event)]]_vars

\* An event has been recorded on the object obtained before a clear(), while
\* the object made after it is the instance and has recorded none.
C19_Witness ==
  /\ Len(heap) = 2
  /\ instance = 2
  /\ last.op \in HandleOps
  /\ last.self = 1
  /\ ~isFromFocusOnlyComponent(last.args.focusTreeId)
  /\ heap[1].lastEventSeen # Null
  /\ heap[2].lastEventSeen = Null

\* C20: for every key and type, reactAppHistoryWithEvent(key, type) on an
\* object answers the same (the same value, or the same failure) right
\* before and right after a handleKeydown, handleKeypress or handleKeyup
\* call on it that only records the event.
C20_RecordingKeepsHistoryAnswer ==
  [][\A ref \in DOMAIN heap :
       RecordingStepOn(ref) =>
         \A key \in Keys, type \in Types :
           LET before == reactAppHistoryWithEvent(heap[ref], key, type)
               after == reactAppHistoryWithEvent(heap'[ref], key, type)
           IN /\ after.ret = before.ret
              /\ after.raised = before.raised]_vars

\* An event has been recorded whose key and type are those of the current
\* event of the focus-only strategy.
C20_Witness ==
  /\ last.op \in HandleOps
  /\ ~isFromFocusOnlyComponent(last.args.focusTreeId)
  /\ CurrentEventOfLast # Undefined
  /\ CurrentEventOfLast.key = last.args.event.key
  /\ CurrentEventOfLast.type = last.args.event.type

\* A key event call the manager hands to a strategy: a global one, or one
\* whose focus tree id isFromFocusOnlyComponent accepts.
Delegates(c) ==
  c.op \in HandleGlobalOps \/ isFromFocusOnlyComponent(c.args.focusTreeId)

\* The strategy call that a handed-on key event call is to make.
DelegatedCall(c) ==
  [self |-> c.self,
   strategy |-> IF c.op \in HandleOps THEN "focusOnly" ELSE "global",
   method |-> IF c.op \in HandleOps THEN c.op ELSE GlobalMethod[c.op],
   args |-> c.args]

\* The strategy calls that the key event calls made so far are to make, in
\* the order of the calls.
DelegatedCalls ==
  LET handed == SelectSeq(trace.issued, Delegates)
  IN [i \in 1..Len(handed) |-> DelegatedCall(handed[i])]

\* C17: after any sequence of handleKeydown, handleKeypress, handleKeyup,
\* handleGlobalKeydown, handleGlobalKeypress and handleGlobalKeyup calls, the
\* calls each strategy of each manager object has received are the calls
\* handed to it, one for one, with the same arguments and in the order in
\* which the manager was called: none is pending, missing, repeated or out
\* of place.
C17_StrategiesReceiveCallsInOrder ==
  \A ref \in DOMAIN heap, strategy \in {"focusOnly", "global"} :
    LET Mine(c) == c.self = ref /\ c.strategy = strategy
    IN SelectSeq(trace.received, Mine) = SelectSeq(DelegatedCalls, Mine)

\* Three key event calls on one object: one handed to the focus-only
\* strategy, then one only recorded, then one handed to the global strategy.
C17_Witness ==
  /\ Len(trace.issued) = 3
  /\ \A i \in 1..3 : trace.issued[i].self = 1
  /\ trace.issued[1].op = "handleKeydown" /\ Delegates(trace.issued[1])
  /\ trace.issued[2].op = "handleKeypress" /\ ~Delegates(trace.issued[2])
  /\ trace.issued[3].op = "handleGlobalKeyup"
  /\ Len(trace.received) = 2

====
